---- MODULE Spec2Model ----
(***************************************************************************)
(* A model of the LoadCore Keystack module (LoadCoreLib.py):               *)
(*   - MW.startTest: the start operation with its one-shot recovery,       *)
(*   - Main.createKpiTracker and the KPI polling loop of Main.runTestcase, *)
(*   - the post-test steps of Main.runTestcase (artifacts, verdict,        *)
(*     session deletion) and its abort handler.                            *)
(*                                                                         *)
(* Strings of the test-case description are sequences of tokens, so that   *)
(* Python's `in`, split, strip, int and float are modelled by what they do.*)
(* Numbers are kept in halves: the integer 3 stands for the float 1.5.     *)
(***************************************************************************)
EXTENDS Integers, Sequences, FiniteSets, TLC

(***************************************************************************)
(* Bounds of the model                                                     *)
(***************************************************************************)
\* polls of the start operation that startTest allows (wait=90 in the code)
StartWait == 3
\* passes of the KPI polling loop a run may make
MaxPasses == 2
\* largest stat value the middleware reports, in halves
MaxStatVal == 2

(***************************************************************************)
(* Tokens and strings                                                      *)
(***************************************************************************)
Tok(k, v) == [k |-> k, v |-> v]
SP == Tok("sp", 0)
LT == Tok("lt", 0)
GT == Tok("gt", 0)
EQ == Tok("eq", 0)
DASH == Tok("dash", 0)
\* a word of a KPI name; a negative v is the same word in lower case
Word(i) == Tok("w", i)
\* a number literal; v is the value in halves
Num(v) == Tok("num", v)

\* the comparison operators as the strings the code looks for
OpLE == <<LT, EQ>>
OpGE == <<GT, EQ>>
OpLT == <<LT>>
OpGT == <<GT>>
OpEQ2 == <<EQ, EQ>>
OpEQ == <<EQ>>

\* Python: pat in s
Contains(s, pat) ==
    \E i \in 1..(Len(s) - Len(pat) + 1) : SubSeq(s, i, i + Len(pat) - 1) = pat

\* index of the first occurrence of pat in s at or after from, 0 if none
FindFrom(s, pat, from) ==
    LET hits == {i \in from..(Len(s) - Len(pat) + 1) :
                     SubSeq(s, i, i + Len(pat) - 1) = pat}
    IN  IF hits = {} THEN 0 ELSE CHOOSE i \in hits : \A j \in hits : i <= j

RECURSIVE SplitFrom(_, _, _)
SplitFrom(s, pat, from) ==
    LET i == FindFrom(s, pat, from)
    IN  IF i = 0 THEN <<SubSeq(s, from, Len(s))>>
        ELSE <<SubSeq(s, from, i - 1)>> \o SplitFrom(s, pat, i + Len(pat))

\* Python: s.split(pat)
Split(s, pat) == SplitFrom(s, pat, 1)

RECURSIVE LStrip(_)
LStrip(s) == IF s # <<>> /\ Head(s) = SP THEN LStrip(Tail(s)) ELSE s

RECURSIVE RStrip(_)
RStrip(s) ==
    IF s # <<>> /\ s[Len(s)] = SP THEN RStrip(SubSeq(s, 1, Len(s) - 1)) ELSE s

\* Python: s.strip()
Strip(s) == LStrip(RStrip(s))

\* Python: float(s); ok is FALSE where float raises ValueError
ToFloat(s) ==
    LET t == Strip(s)
    IN  IF Len(t) = 1 /\ t[1].k = "num" THEN [ok |-> TRUE, v |-> t[1].v]
        ELSE [ok |-> FALSE, v |-> 0]

\* Python: int(s); a literal with a fraction raises ValueError
ToInt(s) ==
    LET t == Strip(s)
    IN  IF Len(t) = 1 /\ t[1].k = "num" /\ t[1].v % 2 = 0
        THEN [ok |-> TRUE, v |-> t[1].v]
        ELSE [ok |-> FALSE, v |-> 0]

\* re.I: the case of a word does not count
Fold(t) == IF t.k = "w" /\ t.v < 0 THEN Tok("w", 0 - t.v) ELSE t
FoldStr(s) == [i \in 1..Len(s) |-> Fold(s[i])]

\* bool(re.match(runtimeKpi, userDefinedKpi, re.I)): the runtime KPI name, used
\* as the pattern, has to match at the start of the declared expression
ReMatch(runtimeKpi, userDefinedKpi) ==
    /\ Len(runtimeKpi) <= Len(userDefinedKpi)
    /\ FoldStr(SubSeq(userDefinedKpi, 1, Len(runtimeKpi))) = FoldStr(runtimeKpi)

\* the value of the latest snapshot of a series
SeqLast(series) == series[Len(series)]

\* max(series) of a non-empty series
SeqMax(series) ==
    CHOOSE m \in {series[i] : i \in 1..Len(series)} :
        \A i \in 1..Len(series) : series[i] <= m

(***************************************************************************)
(* The test-case description and the KPI tracker                           *)
(***************************************************************************)
\* the entry 'NA' of a KPI section
NA == <<Tok("na", 0)>>

\* what kpiStatTracker holds for a KPI that no poll has evaluated
NoneRec == [result |-> "None", expectedValue |-> <<>>, maxValue |-> 0 - 1]

\* createKpiTracker: the operator a declared expression is split at
TrackerOperator(e) ==
    IF Contains(e, OpLE) THEN OpLE
    ELSE IF Contains(e, OpGE) THEN OpGE
    ELSE IF Contains(e, OpLT) THEN OpLT
    ELSE IF Contains(e, OpGT) THEN OpGT
    ELSE IF Contains(e, OpEQ2) THEN OpEQ2
    ELSE OpEQ

\* createKpiTracker: the key a declared expression gets in the tracker
TrackerKey(e) == Split(e, TrackerOperator(e))[1]

\* createKpiTracker: the value every declared KPI starts with
InitialRec == NoneRec

\* createKpiTracker for one test case; kpi is testcaseDict[eachTestcase]['KPI']
CreateKpiTracker(kpi) ==
    [s \in {t \in DOMAIN kpi : ~(\E i \in 1..Len(kpi[t]) : kpi[t][i] = NA)} |->
        [k \in {TrackerKey(kpi[s][i]) : i \in 1..Len(kpi[s])} |-> InitialRec]]

(***************************************************************************)
(* The evaluation of one runtime KPI in the polling loop                   *)
(***************************************************************************)
\* runTestcase: expectedKpiOperator of a declared expression
PollOperator(e) ==
    IF Contains(e, OpLE) THEN OpLE
    ELSE IF Contains(e, OpGE) THEN OpGE
    ELSE IF Contains(e, OpGT) THEN OpGT
    ELSE IF Contains(e, OpLT) THEN OpLT
    ELSE OpEQ

\* runTestcase: the string the expression is split at to get expectedValue
PollSplitter(e) ==
    IF Contains(e, OpLE) THEN OpLE
    ELSE IF Contains(e, OpGE) THEN OpGE
    ELSE IF Contains(e, OpGT) THEN OpGT
    ELSE IF Contains(e, OpLT) THEN OpLT
    ELSE IF Contains(e, OpEQ2) THEN OpEQ2
    ELSE OpEQ

ExpectedValue(e) == Split(e, PollSplitter(e))[2]

\* runTestcase: kpi, the key the result is stored under
PollKey(e) == Strip(Split(e, PollOperator(e))[1])

\* mainObj.operators.get(op)(a, b): the table is the Keystack framework's,
\* taken to map each operator to the Python comparison of that name
Operators(op, a, b) ==
    IF op = OpLE THEN a <= b
    ELSE IF op = OpGE THEN a >= b
    ELSE IF op = OpLT THEN a < b
    ELSE IF op = OpGT THEN a > b
    ELSE a = b

\* maxValue in range(minimumValue, maximumValue + 1), maxValue being a float:
\* only a whole number is a member of a range
InRange(maxValue, minimumValue, maximumValue) ==
    /\ maxValue % 2 = 0
    /\ minimumValue <= maxValue
    /\ maxValue < maximumValue + 2

\* runTestcase: the index of the declared expression a runtime KPI is taken for
\* (0 stands for None): the last expression that matches, located by list.index
MatchIndex(runtimeKpi, kpiList) ==
    LET hits == {i \in 1..Len(kpiList) : ReMatch(runtimeKpi, kpiList[i])}
    IN  IF hits = {} THEN 0
        ELSE LET last == CHOOSE i \in hits : \A j \in hits : j <= i
             IN  CHOOSE i \in 1..Len(kpiList) :
                     /\ kpiList[i] = kpiList[last]
                     /\ \A j \in 1..(i - 1) : kpiList[j] # kpiList[last]

\* runTestcase: the record a poll computes for expression e from the series of
\* its runtime KPI; ok is FALSE where int() or float() raises
EvalKpi(e, series) ==
    LET opr == PollOperator(e)
        ev == ExpectedValue(e)
        maxValue == SeqMax(series)
        expected == opr \o ev
    IN  IF Contains(ev, <<DASH>>)
        THEN LET lo == ToInt(Split(ev, <<DASH>>)[1])
                 hi == ToInt(Split(ev, <<DASH>>)[2])
             IN  IF ~lo.ok \/ ~hi.ok
                 THEN [ok |-> FALSE, rec |-> NoneRec]
                 ELSE [ok |-> TRUE,
                       rec |-> [result |-> IF InRange(maxValue, lo.v, hi.v)
                                           THEN "passed" ELSE "failed",
                                expectedValue |-> expected,
                                maxValue |-> maxValue]]
        ELSE LET f == ToFloat(ev)
             IN  IF ~f.ok
                 THEN [ok |-> FALSE, rec |-> NoneRec]
                 ELSE [ok |-> TRUE,
                       rec |-> [result |-> IF Operators(opr, maxValue, f.v)
                                           THEN "passed" ELSE "failed",
                                expectedValue |-> expected,
                                maxValue |-> maxValue]]

\* runTestcase: the body of the loop over currentStats.items() from the j-th
\* runtime KPI on. cols are the names of the runtime KPIs in the order of the
\* dict, series their accumulated values. ok is FALSE where the body raises
\* (ValueError of int/float, KeyError of the tracker).
RECURSIVE PollKpis(_, _, _, _, _, _)
PollKpis(tracker, s, kpiList, cols, series, j) ==
    IF j > Len(cols) THEN [ok |-> TRUE, tracker |-> tracker]
    ELSE LET index == MatchIndex(cols[j], kpiList)
         IN  IF index = 0
             THEN PollKpis(tracker, s, kpiList, cols, series, j + 1)
             ELSE LET e == kpiList[index]
                      r == EvalKpi(e, series[j])
                      kpi == PollKey(e)
                  IN  IF ~r.ok \/ s \notin DOMAIN tracker
                         \/ kpi \notin DOMAIN tracker[s]
                      THEN [ok |-> FALSE, tracker |-> tracker]
                      ELSE PollKpis([tracker EXCEPT ![s][kpi] = r.rec],
                                    s, kpiList, cols, series, j + 1)

(***************************************************************************)
(* The verdict of Main.runTestcase                                         *)
(***************************************************************************)
\* the items of kpiStatTracker[eachTestcase] in the order of the dicts:
\* <<csvResultFile, kpi>> for every KPI of every tracked stat
RECURSIVE KeysFrom(_, _, _)
KeysFrom(s, kpiList, i) ==
    IF i > Len(kpiList) THEN <<>>
    ELSE LET k == TrackerKey(kpiList[i])
         IN  IF \E j \in 1..(i - 1) : TrackerKey(kpiList[j]) = k
             THEN KeysFrom(s, kpiList, i + 1)
             ELSE <<(<<s, k>>)>> \o KeysFrom(s, kpiList, i + 1)

RECURSIVE TrackerItems(_, _, _, _)
TrackerItems(tracker, kpi, stats, i) ==
    IF i > Len(stats) THEN <<>>
    ELSE (IF stats[i] \in DOMAIN tracker
          THEN KeysFrom(stats[i], kpi[stats[i]], 1) ELSE <<>>)
         \o TrackerItems(tracker, kpi, stats, i + 1)

\* SelectSeq with a result the items are compared to
RECURSIVE ItemsWith(_, _, _)
ItemsWith(tracker, items, result) ==
    IF items = <<>> THEN <<>>
    ELSE (IF tracker[Head(items)[1]][Head(items)[2]].result = result
          THEN <<Head(items)>> ELSE <<>>)
         \o ItemsWith(tracker, Tail(items), result)

\* a verification that takes every KPI short of 'passed' for a failure
FailureEntriesNotPassed(tracker, items) ==
    ItemsWith(tracker, items, "failed") \o ItemsWith(tracker, items, "None")

\* runTestcase: the entries the KPI verification appends to
\* testcaseData['failures']
FailureEntries(tracker, items) == ItemsWith(tracker, items, "failed")

\* runTestcase: the entries the KPI verification appends to
\* testcaseData['passed']
PassedEntries(tracker, items) == ItemsWith(tracker, items, "passed")

\* runTestcase: mainObj.testcaseResult after the KPI verification
Verdict(tracker, items, before) ==
    IF \E i \in 1..Len(items) :
           tracker[items[i][1]][items[i][2]].result = "failed"
    THEN "Failed" ELSE before

\* an end of run that deletes the session whatever the result
DeletesSessionAnyResult(mp, result) == mp.deleteSession

\* runTestcase: whether the session is deleted at the end of a run
DeletesSession(mp, result) ==
    /\ mp.deleteSession
    /\ ~(result = "Failed" /\ mp.deleteSessionOnFailure = FALSE)

(***************************************************************************)
(* MW.startTest                                                            *)
(***************************************************************************)
\* what the middleware may answer to a GET of the start operation
OpStates == {"SUCCESS", "ERROR", "IN_PROGRESS", "NOSTATE"}

\* a startTest that returns on the ERROR of the second operation
StartOutcomeGivesUp(st, rt) ==
    IF st = "NOSTATE" THEN "raise"
    ELSE IF st = "SUCCESS" THEN "return"
    ELSE IF st = "ERROR" THEN (IF rt = 0 THEN "recover" ELSE "return")
    ELSE "wait"

\* startTest: what one poll of the start operation leads to
StartOutcome(st, rt) ==
    IF st = "NOSTATE" THEN "raise"
    ELSE IF st = "SUCCESS" THEN "return"
    ELSE IF st = "ERROR" THEN (IF rt = 0 THEN "recover" ELSE "raise")
    ELSE "wait"

\* startTest: the calls of the recovery from state ERROR, in order
ErrorRecovery ==
    <<"verifyLicenseSettings", "checkSessionState", "rebootAgents",
      "verifyAllAgentsStatusUp", "verifyLicenseSettings", "startPost">>

\* startTest: the calls of the recovery from a start that timed out, in order
TimeoutRecovery ==
    <<"stopTest", "checkSessionState", "verifyLicenseSettings", "rebootAgents",
      "verifyAllAgentsStatusUp", "verifyLicenseSettings", "startPost">>

\* a recovery that leaves the second operation the full wait
WaitAfterRecoveryFull(waitTime) == waitTime

\* startTest: wait when the loop polls again after the recovery from ERROR:
\* wait = waitTime, then the wait -= 1 that ends the iteration
WaitAfterRecovery(waitTime) == waitTime - 1

\* verifyLicenseSettings: None when the middleware has the expected license
\* server and type (the function has no return statement), else the raise
\* of logError
VerifyLicenseSettings(differs) == IF differs THEN "raise" ELSE "None"

\* startTest: if self.verifyLicenseSettings() == False: ... setLicenseServer()
LicenseReset(returned) == IF returned = "False" THEN <<"setLicenseServer">> ELSE <<>>

\* the place in a recovery of its k-th verifyLicenseSettings
VerifyAt(steps, k) ==
    CHOOSE i \in 1..Len(steps) :
        /\ steps[i] = "verifyLicenseSettings"
        /\ Cardinality({j \in 1..i : steps[j] = "verifyLicenseSettings"}) = k

\* the calls of a recovery when the call after the n-th raises, the k-th
\* verifyLicenseSettings finding another license than expected (k = 0: none)
RecoveryAttempt(steps, n, k) ==
    SubSeq(steps, 1, IF n < Len(steps) THEN n + 1 ELSE n)
        \o (IF k # 0 THEN LicenseReset(VerifyLicenseSettings(TRUE))
            ELSE LicenseReset(VerifyLicenseSettings(FALSE)))

\* startTest: how the else clause of the polling loop ends once the retest
\* has been posted: the code runs on into the logError after the loop
AfterRetest == "raise"

(***************************************************************************)
(* The middleware's statistics                                             *)
(***************************************************************************)
\* the names of the runtime KPIs (columns) of a stat, in the order of the dict
Columns(s) == IF s = "S1" THEN <<(<<Word(1)>>)>> ELSE <<(<<Word(3)>>)>>

\* the values the middleware can report for a stat, in halves; the runtime
\* KPI of S2 is a counter that stays at 0 in these runs
StatVals(s) == IF s = "S1" THEN 0..MaxStatVal ELSE {0}

\* what the middleware can add to the snapshots of stat s between two polls
Snapshots(s) == [1..Len(Columns(s)) -> StatVals(s)]

\* getAllStats: the accumulated series of every column
SeriesOf(s, snaps) ==
    [j \in 1..Len(Columns(s)) |-> [i \in 1..Len(snaps) |-> snaps[i][j]]]

SessionStatuses == {"STARTED", "STOPPING", "STOPPED"}

(***************************************************************************)
(* The test cases the model runs                                           *)
(***************************************************************************)
\* a declared KPI expression: name, operator and value, with or without
\* blanks around the operator
Expr(name, op, value, blanks) ==
    IF blanks THEN name \o <<SP>> \o op \o <<SP>> \o value
    ELSE name \o op \o value

Half == <<Num(1)>>
One == <<Num(2)>>
ZeroToOne == <<Num(0), DASH, Num(2)>>
OneToOne == <<Num(2), DASH, Num(2)>>

AllOps == {OpLE, OpGE, OpLT, OpGT, OpEQ2, OpEQ}

\* the KPI sections of the test cases of the complete runs
RunSections ==
    { [S1 |-> <<Expr(<<Word(1)>>, OpGE, One, FALSE)>>,
       S2 |-> <<Expr(<<Word(3)>>, OpLE, One, FALSE)>>],
      [S1 |-> <<Expr(<<Word(1)>>, OpEQ, ZeroToOne, FALSE),
                Expr(<<Word(2)>>, OpGT, One, FALSE)>>,
       S2 |-> <<NA>>] }

\* the KPI sections of the test cases of the polling loop alone: one stat with
\* one expression of every shape, or with two expressions
KpiSections ==
    { [S1 |-> <<Expr(<<Word(w)>>, op, v, b)>>] :
          w \in {1, 0 - 1}, op \in AllOps, v \in {Half, One}, b \in BOOLEAN }
    \cup { [S1 |-> <<Expr(<<Word(1)>>, op, v, FALSE)>>] :
          op \in {OpEQ, OpEQ2}, v \in {ZeroToOne, OneToOne} }
    \cup { [S1 |-> <<Expr(<<Word(1)>> \o n1, OpLE, One, FALSE),
                     Expr(<<Word(1)>> \o n2, OpGE, One, FALSE)>>] :
          n1 \in {<<>>, <<Word(2)>>}, n2 \in {<<>>, <<Word(2)>>} }

\* the stats of a KPI section in the order of the dict
StatOrder(kpi) == IF "S2" \in DOMAIN kpi THEN <<"S1", "S2">> ELSE <<"S1">>

\* the artifacts a run is set up to collect: PDF, CSV, captures and logs
ArtifactChoices == {<<TRUE, FALSE, TRUE>>, <<FALSE, TRUE, FALSE>>}

\* mainObj.moduleProperties of the runs: every setting of the two properties
\* that decide on the session, with each choice of artifacts
ModuleProperties ==
    { [getPdfResultsFile |-> a[1], getCsvResultsFile |-> a[2],
       getCapturesAndLogs |-> a[3], deleteSession |-> d,
       deleteSessionOnFailure |-> f] :
          a \in ArtifactChoices, d \in BOOLEAN, f \in BOOLEAN }

(***************************************************************************)
(* The state                                                               *)
(***************************************************************************)
VARIABLES
    pc,                \* where runTestcase is
    moduleProperties,  \* mainObj.moduleProperties
    kpiDecl,           \* testcaseDict[eachTestcase]['KPI']
    kpiStatTracker,    \* kpiStatTracker[eachTestcase]
    wait,              \* startTest: wait
    retry,             \* startTest: retry
    opId,              \* startTest: the start operation rest_url points at
    opPolls,           \* the GETs made of that operation
    lastState,         \* the state the last of them reported
    retriedBy,         \* which recovery posted the retest
    startCalls,        \* startTest: the calls it has made, the GETs left out
    startEnd,          \* how startTest ended
    licenseDiffers,    \* startTest: which verifyLicenseSettings of the recovery
                       \* found another license on the middleware, 0 for none
    testId,            \* loadCoreObj.testId
    sessionStatus,     \* runTestcase: sessionStatus
    calls,             \* the calls made to the middleware, in order
    statIdx,           \* polling loop: the stat the pass is at
    passes,            \* polling loop: the passes completed
    mwStats,           \* middleware: the snapshots of every stat
    lastPoll,          \* polling loop: the stat polled last and what came back
    status,            \* polling loop: the session status read last
    stoppedVerified,   \* verifySessionForStoppedState has returned
    testcaseResult,    \* mainObj.testcaseResult
    failures,          \* testcaseData['failures']
    passed,            \* testcaseData['passed']
    sessionOnMw,       \* middleware: the session of the run exists
    mwSession,         \* middleware: the status of the session's test
    polledInPass,      \* polling loop: the stats polled in the current pass
    moduleStatus,      \* the status reported to the host last
    errMsg,            \* runTestcase: the step whose exception the handler caught
    errMsg2,           \* runTestcase: the call of the clean-up that raised
    raisedMsg,         \* the error runTestcase raised to its caller
    mainObj,           \* Main.__init__: the framework object it is given
    ctorEnd,           \* Main.__init__: how it ended
    ctorTracker,       \* Main.__init__: kpiStatTracker, all test cases
    connected,         \* a connection to the middleware has been made
    configParams,      \* mainObj.testcaseConfigParams['configParams']
    pollStatInterval,  \* runTestcase: pollStatInterval, <<>> for None
    agentStatus,       \* middleware: the Status of every agent
    envAgents,         \* moduleProperties['envParams']['agents']
    agentPc,           \* where verifyAllAgentsStatusUp is
    allAgents,         \* verifyAllAgentsStatusUp: allAgents
    agentIdRebootList, \* verifyAllAgentsStatusUp: agentIdRebootList
    counter,           \* verifyAllAgentsStatusUp: counter
    agentIdx,          \* verifyAllAgentsStatusUp: the agent the for loop is at
    agentInfo,         \* verifyAllAgentsStatusUp: agentInfo
    seenStopped,       \* the IPs of the agents a getAgentInfo reported STOPPED
    rebootRequests     \* middleware: the agents a reboot was requested for

vars == <<pc, moduleProperties, kpiDecl, kpiStatTracker, wait, retry, opId,
          opPolls, lastState, retriedBy, startCalls, startEnd, testId,
          licenseDiffers, sessionStatus, calls,
          statIdx, passes, mwStats, lastPoll, status, stoppedVerified,
          testcaseResult, failures, passed, sessionOnMw, mwSession,
          polledInPass, moduleStatus, errMsg, errMsg2, raisedMsg,
          mainObj, ctorEnd, ctorTracker, connected, configParams,
          pollStatInterval, agentStatus, envAgents, agentPc, allAgents,
          agentIdRebootList, counter, agentIdx, agentInfo, seenStopped,
          rebootRequests>>

startVars == <<wait, retry, opId, opPolls, lastState, retriedBy, startCalls,
               startEnd, testId, licenseDiffers>>
pollVars == <<statIdx, passes, mwStats, lastPoll, status, kpiStatTracker,
              polledInPass>>
endVars == <<stoppedVerified, testcaseResult, failures, passed>>
ctorVars == <<mainObj, ctorEnd, ctorTracker, connected>>
cfgVars == <<configParams, pollStatInterval>>
agentVars == <<agentStatus, envAgents, agentPc, allAgents, agentIdRebootList,
               counter, agentIdx, agentInfo, seenStopped, rebootRequests>>
runVars == <<pc, moduleProperties, kpiDecl, sessionStatus, calls, sessionOnMw,
             mwSession, moduleStatus, errMsg, errMsg2, raisedMsg, startVars,
             pollVars, endVars, cfgVars>>

\* the runs of runTestcase start from a Main that has been constructed
\* the agents the middleware lists (getAllAgents), in its order, and their IPs
AgentIds == <<"a1", "a2">>
AgentIP(agentId) == IF agentId = "a1" THEN "ip1" ELSE "ip2"

\* verifyAllAgentsStatusUp before its first line, the agents in status st
\* and the Env file listing the agents env
AgentsStart(st, env) ==
    /\ agentStatus = st
    /\ envAgents = env
    /\ agentPc = "scan"
    /\ allAgents = <<>>
    /\ agentIdRebootList = <<>>
    /\ counter = 0
    /\ agentIdx = 1
    /\ agentInfo = [IP |-> "none", Status |-> "none"]
    /\ seenStopped = {}
    /\ rebootRequests = {}

\* a run whose agents are all STOPPED and all of the test environment
AgentsReady ==
    AgentsStart([a \in {"a1", "a2"} |-> "STOPPED"],
                [given |-> FALSE, ips |-> {}])

Constructed ==
    /\ AgentsReady
    /\ mainObj = <<>>
    /\ ctorEnd = "built"
    /\ ctorTracker = <<>>
    /\ connected = FALSE

\* a test case without a configParams section
NoConfig ==
    [present |-> FALSE, hasFunctions |-> FALSE, executeFunctions |-> <<>>,
     hasParams |-> FALSE, params |-> <<>>]

\* runTestcase before its first step, for a test case with KPI section kpi
\* and configParams section cfg
RunStartCfg(kpi, mp, cfg) ==
    /\ pc = "setup"
    /\ configParams = cfg
    /\ pollStatInterval = <<>>
    /\ moduleProperties = mp
    /\ kpiDecl = kpi
    /\ kpiStatTracker = CreateKpiTracker(kpi)
    /\ wait = 0
    /\ retry = 0
    /\ opId = 0
    /\ opPolls = 0
    /\ lastState = "NONE"
    /\ retriedBy = "none"
    /\ startCalls = <<>>
    /\ startEnd = "none"
    /\ licenseDiffers = 0
    /\ testId = "None"
    /\ sessionStatus = FALSE
    /\ calls = <<>>
    /\ statIdx = 1
    /\ passes = 0
    /\ mwStats = [s \in DOMAIN kpi |-> <<>>]
    /\ lastPoll = [stat |-> "none", returned |-> FALSE]
    /\ status = "NONE"
    /\ stoppedVerified = FALSE
    /\ testcaseResult = "Passed"
    /\ failures = <<>>
    /\ passed = <<>>
    /\ sessionOnMw = FALSE
    /\ mwSession = "NONE"
    /\ polledInPass = {}
    /\ moduleStatus = "None"
    /\ errMsg = "none"
    /\ errMsg2 = "none"
    /\ raisedMsg = "none"

RunStart(kpi, mp) == RunStartCfg(kpi, mp, NoConfig)

\* the state Main.__init__ leaves, for a test case with KPI section kpi
InitWith(kpi, mp) == RunStart(kpi, mp) /\ Constructed

Init == \E kpi \in RunSections, mp \in ModuleProperties : InitWith(kpi, mp)

(***************************************************************************)
(* Main.runTestcase up to the start of the test                            *)
(***************************************************************************)
\* runTestcase: except Exception as errMsg. A step that raises leaves its
\* exception, named after the step, to the handler.
Caught(next) == IF next = "except" THEN pc ELSE errMsg

\* getDictItemFromList(listOfDict, key='name', value): the index of the first
\* dict of the list whose name is value, 0 for None
GetDictItemFromList(listOfDict, value) ==
    IF \E i \in 1..Len(listOfDict) : listOfDict[i].name = value
    THEN CHOOSE i \in 1..Len(listOfDict) :
            /\ listOfDict[i].name = value
            /\ \A j \in 1..(i - 1) : listOfDict[j].name # value
    ELSE 0

\* the reconfigurations of runTestcase, when the first n functions of
\* executeFunctions return and the next one, if there is one, fails: in its
\* call (raises) or before it, at the look-up of its library module
Reconfig(cfg, n, raises) ==
    IF ~cfg.present
    THEN [called |-> <<>>, raised |-> FALSE, pollStatInterval |-> <<>>]
    ELSE IF ~cfg.hasFunctions
    THEN [called |-> <<>>, raised |-> TRUE, pollStatInterval |-> <<>>]
    ELSE IF n < Len(cfg.executeFunctions)
    THEN [called |-> SubSeq(cfg.executeFunctions, 1, IF raises THEN n + 1 ELSE n),
          raised |-> TRUE, pollStatInterval |-> <<>>]
    ELSE LET pollStatIntervalIndex ==
                 GetDictItemFromList(cfg.params, "pollStatInterval")
         IN  [called |-> cfg.executeFunctions, raised |-> FALSE,
              pollStatInterval |->
                  IF cfg.hasParams /\ cfg.params # <<>> /\ pollStatIntervalIndex # 0
                  THEN <<cfg.params[pollStatIntervalIndex].value>>
                  ELSE <<>>]

\* the steps before startTest: connect, set the license, verify the agents,
\* create the session, reconfigure. Any of them may raise.
Setup ==
    /\ pc = "setup"
    /\ \E ok \in BOOLEAN :
          IF ok
          THEN \E n \in 0..Len(configParams.executeFunctions), raises \in BOOLEAN :
                  LET r == Reconfig(configParams, n, raises)
                  IN  /\ calls' = calls \o <<"setLicenseServer",
                                              "verifyAllAgentsStatusUp",
                                              "newSession">> \o r.called
                      /\ sessionOnMw' = TRUE
                      /\ moduleStatus' = "Loading Config File"
                      /\ pollStatInterval' = r.pollStatInterval
                      /\ pc' = IF r.raised THEN "except" ELSE "startPost"
          ELSE /\ pc' = "except"
               /\ UNCHANGED <<calls, sessionOnMw, moduleStatus, pollStatInterval>>
    /\ UNCHANGED <<moduleProperties, kpiDecl, sessionStatus, mwSession, configParams>>
    /\ UNCHANGED startVars
    /\ UNCHANGED pollVars
    /\ UNCHANGED endVars
    /\ errMsg' = Caught(pc')
    /\ UNCHANGED <<errMsg2, raisedMsg>>
    /\ UNCHANGED ctorVars
    /\ UNCHANGED agentVars

\* startTest: the POST of the start operation and the set-up of the loop
StartPost ==
    /\ pc = "startPost"
    /\ calls' = Append(calls, "startTest")
    /\ startCalls' = <<"startPost">>
    /\ \E accepted \in BOOLEAN :
          IF accepted
          THEN /\ wait' = StartWait
               /\ retry' = 0
               /\ opId' = 1
               /\ opPolls' = 0
               /\ pc' = "startPoll"
               /\ UNCHANGED startEnd
          ELSE /\ startEnd' = "raised"
               /\ pc' = "except"
               /\ UNCHANGED <<wait, retry, opId, opPolls>>
    /\ UNCHANGED <<lastState, retriedBy, testId, licenseDiffers>>
    /\ UNCHANGED <<moduleProperties, kpiDecl, sessionStatus, sessionOnMw, mwSession,
                   moduleStatus>>
    /\ UNCHANGED pollVars
    /\ UNCHANGED endVars
    /\ errMsg' = Caught(pc')
    /\ UNCHANGED <<errMsg2, raisedMsg>>
    /\ UNCHANGED ctorVars
    /\ UNCHANGED cfgVars
    /\ UNCHANGED agentVars

\* startTest returns: its locals are gone
StartReturns ==
    /\ testId' = "set"
    /\ startEnd' = "returned"
    /\ pc' = "checkStarted"
    /\ wait' = 0
    /\ retry' = 0
    /\ opId' = 0
    /\ opPolls' = 0
    /\ retriedBy' = "none"
    /\ startCalls' = <<>>
    /\ licenseDiffers' = 0

\* startTest raises
StartRaises ==
    /\ startEnd' = "raised"
    /\ pc' = "except"

\* startTest: one iteration of the polling loop
StartPoll ==
    /\ pc = "startPoll"
    /\ wait > 0
    /\ \E st \in OpStates :
          /\ lastState' = st
          /\ LET out == StartOutcome(st, retry)
             IN  \/ /\ out = "return"
                    /\ \E ok \in BOOLEAN :
                          IF ok
                          THEN StartReturns
                          ELSE /\ StartRaises
                               /\ opPolls' = opPolls + 1
                               /\ UNCHANGED <<testId, wait, retry, opId, retriedBy,
                                              startCalls, licenseDiffers>>
                 \/ /\ out = "raise"
                    /\ StartRaises
                    /\ opPolls' = opPolls + 1
                    /\ UNCHANGED <<wait, retry, opId, retriedBy, testId, startCalls,
                                   licenseDiffers>>
                 \/ /\ out = "wait"
                    /\ wait' = wait - 1
                    /\ opPolls' = opPolls + 1
                    /\ UNCHANGED <<pc, retry, opId, retriedBy, startEnd, testId,
                                   startCalls, licenseDiffers>>
                 \/ /\ out = "recover"
                    /\ \E n \in 0..Len(ErrorRecovery), k \in 0..2 :
                          /\ k # 0 => n + 1 = VerifyAt(ErrorRecovery, k)
                          /\ licenseDiffers' = k
                          /\ startCalls' = startCalls \o RecoveryAttempt(ErrorRecovery, n, k)
                          /\ IF n = Len(ErrorRecovery)
                             THEN /\ retry' = 1
                                  /\ retriedBy' = "error"
                                  /\ opId' = opId + 1
                                  /\ wait' = WaitAfterRecovery(StartWait)
                                  /\ opPolls' = 0
                                  /\ UNCHANGED <<pc, startEnd>>
                             ELSE /\ StartRaises
                                  /\ opPolls' = opPolls + 1
                                  /\ UNCHANGED <<wait, retry, opId, retriedBy>>
                    /\ UNCHANGED testId
    /\ UNCHANGED <<moduleProperties, kpiDecl, sessionStatus, sessionOnMw, mwSession,
                   moduleStatus, calls>>
    /\ UNCHANGED pollVars
    /\ UNCHANGED endVars
    /\ errMsg' = Caught(pc')
    /\ UNCHANGED <<errMsg2, raisedMsg>>
    /\ UNCHANGED ctorVars
    /\ UNCHANGED cfgVars
    /\ UNCHANGED agentVars

\* startTest: the else clause of the polling loop and the lines after the loop
StartTimeout ==
    /\ pc = "startPoll"
    /\ wait <= 0
    /\ IF retry = 0
       THEN \E n \in 0..Len(TimeoutRecovery), k \in 0..2 :
               /\ k # 0 => n + 1 = VerifyAt(TimeoutRecovery, k)
               /\ licenseDiffers' = k
               /\ startCalls' = startCalls \o RecoveryAttempt(TimeoutRecovery, n, k)
               /\ IF n = Len(TimeoutRecovery)
                  THEN /\ retry' = 1
                       /\ retriedBy' = "timeout"
                       /\ opId' = opId + 1
                       /\ wait' = StartWait
                       /\ opPolls' = 0
                       /\ IF AfterRetest = "raise"
                          THEN StartRaises
                          ELSE UNCHANGED <<pc, startEnd>>
                  ELSE /\ StartRaises
                       /\ UNCHANGED <<wait, retry, opId, opPolls, retriedBy>>
       ELSE /\ StartRaises
            /\ UNCHANGED <<wait, retry, opId, opPolls, retriedBy, startCalls,
                           licenseDiffers>>
    /\ UNCHANGED <<lastState, testId>>
    /\ UNCHANGED <<moduleProperties, kpiDecl, sessionStatus, sessionOnMw, mwSession,
                   moduleStatus, calls>>
    /\ UNCHANGED pollVars
    /\ UNCHANGED endVars
    /\ errMsg' = Caught(pc')
    /\ UNCHANGED <<errMsg2, raisedMsg>>
    /\ UNCHANGED ctorVars
    /\ UNCHANGED cfgVars
    /\ UNCHANGED agentVars

\* runTestcase: checkSessionState(status='STARTED') after startTest
CheckStarted ==
    /\ pc = "checkStarted"
    /\ calls' = Append(calls, "checkSessionState")
    /\ \E started \in BOOLEAN :
          /\ sessionStatus' = started
          /\ mwSession' = IF started THEN "STARTED" ELSE "STOPPED"
          /\ IF started
             THEN /\ moduleStatus' = "Running"
                  /\ pc' = "poll"
             ELSE /\ pc' = "except"
                  /\ UNCHANGED moduleStatus
    /\ UNCHANGED <<moduleProperties, kpiDecl, sessionOnMw>>
    /\ UNCHANGED startVars
    /\ UNCHANGED pollVars
    /\ UNCHANGED endVars
    /\ errMsg' = Caught(pc')
    /\ UNCHANGED <<errMsg2, raisedMsg>>
    /\ UNCHANGED ctorVars
    /\ UNCHANGED cfgVars
    /\ UNCHANGED agentVars

(***************************************************************************)
(* The KPI polling loop of Main.runTestcase                                *)
(***************************************************************************)
\* the middleware: the test of the session runs, stops and is stopped
MwAdvance ==
    /\ pc \in {"poll", "status"}
    /\ \/ mwSession = "STARTED" /\ mwSession' = "STOPPING"
       \/ mwSession = "STOPPING" /\ mwSession' = "STOPPED"
    /\ UNCHANGED <<pc, moduleProperties, kpiDecl, sessionStatus, calls, sessionOnMw,
                   moduleStatus>>
    /\ UNCHANGED startVars
    /\ UNCHANGED pollVars
    /\ UNCHANGED endVars
    /\ errMsg' = Caught(pc')
    /\ UNCHANGED <<errMsg2, raisedMsg>>
    /\ UNCHANGED ctorVars
    /\ UNCHANGED cfgVars
    /\ UNCHANGED agentVars

\* getAllStats as the loop sees it: it raises, returns None, or returns stats
PollAnswers == <<"raise", "None", "stats">>

\* runTestcase: where the loop is after the stat at idx of n stats
AfterStat(idx, n) == IF idx < n THEN "poll" ELSE "status"

\* runTestcase: the body of the loop over the stats for one stat. The
\* middleware may have taken one more snapshot since the last poll; getAllStats
\* answers None (stats not ready), the accumulated series, or raises.
PollStat ==
    /\ pc = "poll"
    /\ LET s == StatOrder(kpiDecl)[statIdx]
           n == Len(StatOrder(kpiDecl))
       IN  \E add \in {<<>>} \cup {<<snap>> : snap \in Snapshots(s)} :
           \E a \in 1..Len(PollAnswers) :
           LET answer == PollAnswers[a] IN
              /\ Len(mwStats[s]) + Len(add) <= MaxPasses
              /\ answer = "stats" => Len(mwStats[s]) + Len(add) > 0
              /\ mwStats' = [mwStats EXCEPT ![s] = mwStats[s] \o add]
              /\ lastPoll' = [stat |-> s, returned |-> answer = "stats"]
              /\ polledInPass' = polledInPass \cup {s}
              /\ IF answer = "raise"
                 THEN /\ pc' = "except"
                      /\ UNCHANGED <<statIdx, kpiStatTracker>>
                 ELSE IF answer = "None"
                 THEN /\ pc' = AfterStat(statIdx, n)
                      /\ statIdx' = statIdx + 1
                      /\ UNCHANGED kpiStatTracker
                 ELSE LET r == PollKpis(kpiStatTracker, s, kpiDecl[s], Columns(s),
                                        SeriesOf(s, mwStats'[s]), 1)
                      IN  /\ kpiStatTracker' = r.tracker
                          /\ IF r.ok
                             THEN /\ pc' = AfterStat(statIdx, n)
                                  /\ statIdx' = statIdx + 1
                             ELSE /\ pc' = "except"
                                  /\ UNCHANGED statIdx
    /\ UNCHANGED <<passes, status>>
    /\ UNCHANGED <<moduleProperties, kpiDecl, sessionStatus, calls, sessionOnMw,
                   mwSession, moduleStatus>>
    /\ UNCHANGED startVars
    /\ UNCHANGED endVars
    /\ errMsg' = Caught(pc')
    /\ UNCHANGED <<errMsg2, raisedMsg>>
    /\ UNCHANGED ctorVars
    /\ UNCHANGED cfgVars
    /\ UNCHANGED agentVars

\* a loop that goes on while the session is STOPPING
EndsLoopStopped(st) == st = "STOPPED"

\* runTestcase: whether a session status ends the loop
EndsLoop(st) == st \in {"STOPPING", "STOPPED"}

\* runTestcase: the read of the session status that ends a pass. A run makes
\* at most MaxPasses passes.
ReadStatus ==
    /\ pc = "status"
    /\ EndsLoop(mwSession) \/ passes + 1 < MaxPasses
    /\ \E ok \in BOOLEAN :
          IF ~ok
          THEN /\ pc' = "except"
               /\ UNCHANGED <<status, passes, statIdx, polledInPass, moduleStatus>>
          ELSE /\ status' = mwSession
               /\ passes' = passes + 1
               /\ IF EndsLoop(mwSession)
                  THEN /\ moduleStatus' = "Stopping"
                       /\ pc' = "verifyStopped"
                       /\ UNCHANGED <<statIdx, polledInPass>>
                  ELSE /\ pc' = "poll"
                       /\ statIdx' = 1
                       /\ polledInPass' = {}
                       /\ UNCHANGED moduleStatus
    /\ UNCHANGED <<mwStats, lastPoll, kpiStatTracker>>
    /\ UNCHANGED <<moduleProperties, kpiDecl, sessionStatus, calls, sessionOnMw,
                   mwSession>>
    /\ UNCHANGED startVars
    /\ UNCHANGED endVars
    /\ errMsg' = Caught(pc')
    /\ UNCHANGED <<errMsg2, raisedMsg>>
    /\ UNCHANGED ctorVars
    /\ UNCHANGED cfgVars
    /\ UNCHANGED agentVars

(***************************************************************************)
(* Main.runTestcase after the loop                                         *)
(***************************************************************************)
\* a verifySessionForStoppedState that returns on any status
StoppedOkAny(st) == TRUE

\* verifySessionForStoppedState: whether the status read last lets it return
StoppedOk(st) == st = "STOPPED"

\* verifySessionForStoppedState after the loop: the wait for STOPPED, the read
\* of the status, the recovery of a session stuck in STOPPING, the check
VerifyStopped ==
    /\ pc = "verifyStopped"
    /\ calls' = Append(calls, "verifySessionForStoppedState")
    /\ \E st1 \in {mwSession, "STOPPED"}, patched \in BOOLEAN,
          st2 \in {"STOPPING", "STOPPED"} :
          LET final == IF st1 = "STOPPING" THEN st2 ELSE st1
          IN  /\ mwSession' = final
              /\ status' = final
              /\ IF (st1 = "STOPPING" /\ ~patched) \/ ~StoppedOk(final)
                 THEN /\ pc' = "except"
                      /\ UNCHANGED <<stoppedVerified, moduleStatus>>
                 ELSE /\ stoppedVerified' = TRUE
                      /\ moduleStatus' = "Collecting Artifacts"
                      /\ pc' = "pdf"
    /\ UNCHANGED <<statIdx, passes, mwStats, lastPoll, kpiStatTracker, polledInPass>>
    /\ UNCHANGED <<testcaseResult, failures, passed>>
    /\ UNCHANGED <<moduleProperties, kpiDecl, sessionStatus, sessionOnMw>>
    /\ UNCHANGED startVars
    /\ errMsg' = Caught(pc')
    /\ UNCHANGED <<errMsg2, raisedMsg>>
    /\ UNCHANGED ctorVars
    /\ UNCHANGED cfgVars
    /\ UNCHANGED agentVars

\* runTestcase: one of the three artifacts: requested if its module property
\* is set; the request may raise
Artifact(at, property, call, next) ==
    /\ pc = at
    /\ IF moduleProperties[property]
       THEN /\ calls' = Append(calls, call)
            /\ \E ok \in BOOLEAN : pc' = IF ok THEN next ELSE "except"
       ELSE /\ pc' = next
            /\ UNCHANGED calls
    /\ UNCHANGED <<moduleProperties, kpiDecl, sessionStatus, sessionOnMw, mwSession,
                   moduleStatus>>
    /\ UNCHANGED startVars
    /\ UNCHANGED pollVars
    /\ UNCHANGED endVars
    /\ errMsg' = Caught(pc')
    /\ UNCHANGED <<errMsg2, raisedMsg>>
    /\ UNCHANGED ctorVars
    /\ UNCHANGED cfgVars
    /\ UNCHANGED agentVars

GetPdf == Artifact("pdf", "getPdfResultsFile", "getPDFreport", "csv")
GetCsv == Artifact("csv", "getCsvResultsFile", "getCSVs", "logs")
GetLogs == Artifact("logs", "getCapturesAndLogs", "getCapturedLogs", "verifyKpi")

\* runTestcase: the verification of the KPI results
VerifyKpi ==
    /\ pc = "verifyKpi"
    /\ LET items == TrackerItems(kpiStatTracker, kpiDecl, StatOrder(kpiDecl), 1)
       IN  /\ testcaseResult' = Verdict(kpiStatTracker, items, testcaseResult)
           /\ failures' = failures \o FailureEntries(kpiStatTracker, items)
           /\ passed' = passed \o PassedEntries(kpiStatTracker, items)
    /\ pc' = "delete"
    /\ UNCHANGED <<moduleProperties, kpiDecl, sessionStatus, calls, sessionOnMw,
                   mwSession, moduleStatus, stoppedVerified>>
    /\ UNCHANGED startVars
    /\ UNCHANGED pollVars
    /\ errMsg' = Caught(pc')
    /\ UNCHANGED <<errMsg2, raisedMsg>>
    /\ UNCHANGED ctorVars
    /\ UNCHANGED cfgVars
    /\ UNCHANGED agentVars

\* runTestcase: the deletion of the session at the end of the run;
\* MW.deleteSession asserts the status code and that the session is gone
DeleteSessionStep ==
    /\ pc = "delete"
    /\ IF DeletesSession(moduleProperties, testcaseResult)
       THEN /\ moduleStatus' = "Deleting Test Session"
            /\ calls' = Append(calls, "deleteSession")
            /\ \E ok \in BOOLEAN, gone \in BOOLEAN :
                  /\ ok => gone
                  /\ sessionOnMw' = ~gone
                  /\ pc' = IF ok THEN "finish" ELSE "except"
       ELSE /\ pc' = "finish"
            /\ UNCHANGED <<moduleStatus, calls, sessionOnMw>>
    /\ UNCHANGED <<moduleProperties, kpiDecl, sessionStatus, mwSession>>
    /\ UNCHANGED startVars
    /\ UNCHANGED pollVars
    /\ UNCHANGED endVars
    /\ errMsg' = Caught(pc')
    /\ UNCHANGED <<errMsg2, raisedMsg>>
    /\ UNCHANGED ctorVars
    /\ UNCHANGED cfgVars
    /\ UNCHANGED agentVars

\* runTestcase: the deletion of the results and of the config; the run is over
Finish ==
    /\ pc = "finish"
    /\ \E ok \in BOOLEAN : pc' = IF ok THEN "done" ELSE "except"
    /\ UNCHANGED <<moduleProperties, kpiDecl, sessionStatus, calls, sessionOnMw,
                   mwSession, moduleStatus>>
    /\ UNCHANGED startVars
    /\ UNCHANGED pollVars
    /\ UNCHANGED endVars
    /\ errMsg' = Caught(pc')
    /\ UNCHANGED <<errMsg2, raisedMsg>>
    /\ UNCHANGED ctorVars
    /\ UNCHANGED cfgVars
    /\ UNCHANGED agentVars

\* a handler that raises what its clean-up raised last
ReraisedLast(caught, cleanup) == IF cleanup # "none" THEN cleanup ELSE caught

\* runTestcase: what the handler raises: the traceback of the exception it
\* caught, whatever the clean-up raised
Reraised(caught, cleanup) == caught

\* runTestcase: the except clause: report, clean up, raise again. The
\* clean-up waits for STOPPED if the session had started, then deletes the
\* session if testId is set and both properties say so; what it raises ends
\* it and is passed over (a set-up that raised may have left no loadCoreObj
\* to read testId from). With the raise the locals of runTestcase and of
\* startTest are gone.
Except ==
    /\ pc = "except"
    /\ moduleStatus' = "Aborting"
    /\ \E stopped \in BOOLEAN, deleted \in BOOLEAN, built \in BOOLEAN :
          LET verifies == sessionStatus
              reaches == ~verifies \/ stopped
              deletes == /\ reaches
                         /\ testId # "None"
                         /\ moduleProperties.deleteSession
                         /\ moduleProperties.deleteSessionOnFailure
              cleanup == IF errMsg = "setup" /\ ~built THEN "loadCoreObj"
                         ELSE IF ~reaches THEN "verifySessionForStoppedState"
                         ELSE IF deletes /\ ~deleted THEN "deleteSession"
                         ELSE "none"
          IN  /\ calls' = calls
                    \o (IF verifies THEN <<"verifySessionForStoppedState">> ELSE <<>>)
                    \o (IF deletes THEN <<"deleteSession">> ELSE <<>>)
              /\ mwSession' = IF verifies /\ stopped THEN "STOPPED" ELSE mwSession
              /\ sessionOnMw' = IF deletes /\ deleted THEN FALSE ELSE sessionOnMw
              /\ errMsg2' = cleanup
              /\ raisedMsg' = Reraised(errMsg, cleanup)
    /\ pc' = "raised"
    /\ wait' = 0
    /\ retry' = 0
    /\ opId' = 0
    /\ opPolls' = 0
    /\ retriedBy' = "none"
    /\ startCalls' = <<>>
    /\ licenseDiffers' = 0
    /\ statIdx' = 1
    /\ passes' = 0
    /\ lastPoll' = [stat |-> "none", returned |-> FALSE]
    /\ polledInPass' = {}
    /\ status' = "NONE"
    /\ UNCHANGED <<moduleProperties, kpiDecl, sessionStatus, lastState, startEnd,
                   testId, mwStats, kpiStatTracker, errMsg>>
    /\ UNCHANGED endVars
    /\ UNCHANGED ctorVars
    /\ UNCHANGED cfgVars
    /\ UNCHANGED agentVars

Next ==
    \/ Setup
    \/ StartPost
    \/ StartPoll
    \/ StartTimeout
    \/ CheckStarted
    \/ MwAdvance
    \/ PollStat
    \/ ReadStatus
    \/ VerifyStopped
    \/ GetPdf
    \/ GetCsv
    \/ GetLogs
    \/ VerifyKpi
    \/ DeleteSessionStep
    \/ Finish
    \/ Except

Spec == Init /\ [][Next]_vars

(***************************************************************************)
(* The polling loop alone, for test cases with KPI expressions of every    *)
(* shape: the runs start where runTestcase enters the loop                 *)
(***************************************************************************)
AllProperties ==
    [getPdfResultsFile |-> TRUE, getCsvResultsFile |-> TRUE,
     getCapturesAndLogs |-> TRUE, deleteSession |-> TRUE,
     deleteSessionOnFailure |-> TRUE]

\* the state in which runTestcase enters the polling loop
LoopEntry(kpi, mp) ==
    /\ pc = "poll"
    /\ moduleProperties = mp
    /\ kpiDecl = kpi
    /\ kpiStatTracker = CreateKpiTracker(kpi)
    /\ wait = 0
    /\ retry = 0
    /\ opId = 0
    /\ opPolls = 0
    /\ lastState = "SUCCESS"
    /\ retriedBy = "none"
    /\ startCalls = <<>>
    /\ startEnd = "returned"
    /\ licenseDiffers = 0
    /\ testId = "set"
    /\ sessionStatus = TRUE
    /\ calls = <<"setLicenseServer", "verifyAllAgentsStatusUp", "newSession",
                 "startTest", "checkSessionState">>
    /\ statIdx = 1
    /\ passes = 0
    /\ mwStats = [s \in DOMAIN kpi |-> <<>>]
    /\ lastPoll = [stat |-> "none", returned |-> FALSE]
    /\ status = "NONE"
    /\ stoppedVerified = FALSE
    /\ testcaseResult = "Passed"
    /\ failures = <<>>
    /\ passed = <<>>
    /\ sessionOnMw = TRUE
    /\ mwSession = "STARTED"
    /\ polledInPass = {}
    /\ moduleStatus = "Running"
    /\ errMsg = "none"
    /\ errMsg2 = "none"
    /\ raisedMsg = "none"
    /\ configParams = NoConfig
    /\ pollStatInterval = <<>>
    /\ Constructed

InitKpi == \E kpi \in KpiSections : LoopEntry(kpi, AllProperties)

NextKpi ==
    \/ MwAdvance
    \/ PollStat
    \/ ReadStatus

SpecKpi == InitKpi /\ [][NextKpi]_vars

(***************************************************************************)
(* Test cases with a configParams section                                  *)
(***************************************************************************)
PollParam == [name |-> "pollStatInterval", value |-> 2]
OtherParam == [name |-> "other", value |-> 1]

\* testcaseConfigParams['configParams']: absent, with params only, with
\* executeFunctions only, with both
ConfigSections ==
    { NoConfig,
      [present |-> TRUE, hasFunctions |-> FALSE, executeFunctions |-> <<>>,
       hasParams |-> TRUE, params |-> <<PollParam>>],
      [present |-> TRUE, hasFunctions |-> TRUE, executeFunctions |-> <<"f1", "f2">>,
       hasParams |-> FALSE, params |-> <<>>],
      [present |-> TRUE, hasFunctions |-> TRUE, executeFunctions |-> <<"f2", "f1">>,
       hasParams |-> TRUE, params |-> <<OtherParam, PollParam>>],
      [present |-> TRUE, hasFunctions |-> TRUE, executeFunctions |-> <<>>,
       hasParams |-> TRUE, params |-> <<PollParam>>],
      [present |-> TRUE, hasFunctions |-> TRUE, executeFunctions |-> <<"f1">>,
       hasParams |-> TRUE, params |-> <<OtherParam>>] }

InitSetup ==
    \E cfg \in ConfigSections :
        /\ RunStartCfg([S1 |-> <<Expr(<<Word(1)>>, OpGE, One, FALSE)>>],
                       AllProperties, cfg)
        /\ Constructed

SpecSetup == InitSetup /\ [][Next]_vars

(***************************************************************************)
(* Main.__init__                                                           *)
(***************************************************************************)
\* str.strip on the stat names of the test cases
StripName(n) == IF n = " S1" THEN "S1" ELSE n

\* createKpiTracker: whether it gets through the KPI section of a test case:
\* it looks every stat up under its stripped name
TracksSection(kpi) == \A n \in DOMAIN kpi : StripName(n) \in DOMAIN kpi

\* Main.__init__: createKpiTracker first, then the check of envParams and of
\* the two license parameters
MainInit(obj) ==
    LET order == obj.testcaseSortedOrderList
        env == obj.envParams
    IN  IF \E i \in 1..Len(order) : ~TracksSection(obj.testcaseDict[order[i]])
        THEN [end |-> "raised", tracker |-> <<>>]
        ELSE LET tracker ==
                    [tc \in {order[i] : i \in 1..Len(order)} |->
                        CreateKpiTracker(obj.testcaseDict[tc])]
             IN  IF env.kind \in {"absent", "None"}
                 THEN [end |-> "raised", tracker |-> tracker]
                 ELSE IF "licenseServerIp" \notin env.keys
                 THEN [end |-> "raised", tracker |-> tracker]
                 ELSE IF "licenseServerType" \notin env.keys
                 THEN [end |-> "raised", tracker |-> tracker]
                 ELSE [end |-> "built", tracker |-> tracker]

\* moduleProperties['envParams']: absent, None, or a dict with these keys
CtorEnvParams ==
    {[kind |-> "absent", keys |-> {}], [kind |-> "None", keys |-> {}]} \cup
    {[kind |-> "dict", keys |-> ks] :
        ks \in SUBSET {"licenseServerIp", "licenseServerType", "mwIp"}}

\* testcaseSortedOrderList
CtorOrders == {<<"tc1">>, <<"tc1", "tc2">>, <<"tc2", "tc1">>}

\* the KPI sections of the test cases Main is constructed with
CtorSections ==
    { [S1 |-> <<Expr(<<Word(1)>>, OpGE, One, FALSE)>>],
      [S1 |-> <<Expr(<<Word(1)>>, OpGE, One, FALSE)>>, S2 |-> <<NA>>],
      (" S1" :> <<Expr(<<Word(1)>>, OpGE, One, FALSE)>>) }

\* the framework objects Main is constructed with
MainObjs ==
    [envParams : CtorEnvParams, testcaseSortedOrderList : CtorOrders,
     testcaseDict : [{"tc1", "tc2"} -> CtorSections]]

InitCtor ==
    /\ mainObj \in MainObjs
    /\ ctorEnd = "none"
    /\ ctorTracker = <<>>
    /\ connected = FALSE
    /\ AgentsReady
    /\ RunStart([S1 |-> <<Expr(<<Word(1)>>, OpGE, One, FALSE)>>], AllProperties)

\* Main(keystackObj)
Construct ==
    /\ ctorEnd = "none"
    /\ LET r == MainInit(mainObj)
       IN  /\ ctorEnd' = r.end
           /\ ctorTracker' = r.tracker
    /\ UNCHANGED <<mainObj, connected>>
    /\ UNCHANGED runVars
    /\ UNCHANGED agentVars

\* runTestcase of the Main that was constructed: MW(...) logs in
Connect ==
    /\ ctorEnd = "built"
    /\ ~connected
    /\ connected' = TRUE
    /\ UNCHANGED <<mainObj, ctorEnd, ctorTracker>>
    /\ UNCHANGED runVars
    /\ UNCHANGED agentVars

NextCtor ==
    \/ Construct
    \/ Connect

SpecInit == InitCtor /\ [][NextCtor]_vars

(***************************************************************************)
(* MW.verifyAllAgentsStatusUp                                              *)
(***************************************************************************)
\* verifyAllAgentsStatusUp: timeout
AgentTimeout == 150

\* the status an agent can be in
AgentStates == {"STOPPED", "OFFLINE"}

\* an agent the function looks at: all of them when the Env file lists no
\* agents
InEnv(ip) == envAgents.given => ip \in envAgents.ips

\* getAgentInfo(agentId)
GetAgentInfo(agentId) ==
    [IP |-> AgentIP(agentId), Status |-> agentStatus[agentId]]

\* agentIp in allAgents
InAllAgents(ip) == \E i \in 1..Len(allAgents) : allAgents[i] = ip

\* allAgents.pop(allAgents.index(agentIp))
PopAgent(agents, ip) ==
    LET index == CHOOSE i \in 1..Len(agents) :
                    agents[i] = ip /\ \A j \in 1..(i - 1) : agents[j] # ip
    IN  SubSeq(agents, 1, index - 1) \o SubSeq(agents, index + 1, Len(agents))

AgentsInit ==
    /\ \E st \in [{"a1", "a2"} -> AgentStates],
          env \in {[given |-> FALSE, ips |-> {}]} \cup
                  {[given |-> TRUE, ips |-> ips] :
                      ips \in {{"ip1"}, {"ip2"}, {"ip1", "ip2"}}} :
          AgentsStart(st, env)
    /\ RunStart([S1 |-> <<Expr(<<Word(1)>>, OpGE, One, FALSE)>>], AllProperties)
    /\ mainObj = <<>>
    /\ ctorEnd = "built"
    /\ ctorTracker = <<>>
    /\ connected = TRUE

\* the middleware: an agent comes up or goes down while the function runs
AgentChange ==
    /\ agentPc \in {"scan", "round", "agent"}
    /\ counter <= AgentTimeout
    /\ \E a \in {"a1", "a2"}, st \in AgentStates :
          /\ agentStatus[a] # st
          /\ agentStatus' = [agentStatus EXCEPT ![a] = st]
    /\ UNCHANGED <<envAgents, agentPc, allAgents, agentIdRebootList, counter,
                   agentIdx, agentInfo, seenStopped, rebootRequests>>
    /\ UNCHANGED runVars
    /\ UNCHANGED ctorVars

\* the first for loop, one agent of getAllAgents
ScanAgent ==
    /\ agentPc = "scan"
    /\ agentIdx <= Len(AgentIds)
    /\ LET agentId == AgentIds[agentIdx]
           info == GetAgentInfo(agentId)
       IN  /\ agentInfo' = info
           /\ agentIdx' = agentIdx + 1
           /\ IF envAgents.given /\ info.IP \notin envAgents.ips
              THEN UNCHANGED <<allAgents, agentIdRebootList, seenStopped>>
              ELSE /\ allAgents' = Append(allAgents, info.IP)
                   /\ agentIdRebootList' =
                          IF info.Status # "STOPPED"
                          THEN Append(agentIdRebootList, agentId)
                          ELSE agentIdRebootList
                   /\ seenStopped' =
                          IF info.Status = "STOPPED"
                          THEN seenStopped \cup {info.IP}
                          ELSE seenStopped
    /\ UNCHANGED <<agentStatus, envAgents, agentPc, counter, rebootRequests>>
    /\ UNCHANGED runVars
    /\ UNCHANGED ctorVars

\* after the first loop: return True, or go into the while loop
ScanEnd ==
    /\ agentPc = "scan"
    /\ agentIdx > Len(AgentIds)
    /\ IF Len(agentIdRebootList) = 0
       THEN agentPc' = "returned"
       ELSE agentPc' = "round"
    /\ counter' = 0
    /\ UNCHANGED <<agentStatus, envAgents, allAgents, agentIdRebootList, agentIdx,
                   agentInfo, seenStopped, rebootRequests>>
    /\ UNCHANGED runVars
    /\ UNCHANGED ctorVars

\* while True: counter += 1; allAgentInfo = self.getAllAgents()
RoundStart ==
    /\ agentPc = "round"
    /\ counter <= AgentTimeout
    /\ counter' = counter + 1
    /\ agentIdx' = 1
    /\ agentPc' = "agent"
    /\ UNCHANGED <<agentStatus, envAgents, allAgents, agentIdRebootList,
                   agentInfo, seenStopped, rebootRequests>>
    /\ UNCHANGED runVars
    /\ UNCHANGED ctorVars

\* the for loop of the while loop, one agent of getAllAgents
RoundAgent ==
    /\ agentPc = "agent"
    /\ LET agentId == AgentIds[agentIdx]
           agentIp == agentInfo.IP
           info == GetAgentInfo(agentId)
           stopped == info.Status = "STOPPED"
           pops == InAllAgents(agentIp) /\ stopped /\ counter < AgentTimeout
           left == IF pops THEN PopAgent(allAgents, agentIp) ELSE allAgents
       IN  /\ agentInfo' = info
           /\ allAgents' = left
           /\ seenStopped' = IF stopped THEN seenStopped \cup {info.IP}
                                        ELSE seenStopped
           /\ IF pops /\ Len(left) = 0
              THEN /\ agentPc' = "returned"
                   /\ UNCHANGED agentIdx
              ELSE IF /\ InAllAgents(agentIp)
                      /\ ~stopped
                      /\ Len(left) # 0
                      /\ counter = AgentTimeout
              THEN /\ agentPc' = "raised"
                   /\ UNCHANGED agentIdx
              ELSE /\ agentIdx' = agentIdx + 1
                   /\ agentPc' = IF agentIdx = Len(AgentIds) THEN "round"
                                                             ELSE "agent"
    /\ UNCHANGED <<agentStatus, envAgents, agentIdRebootList, counter,
                   rebootRequests>>
    /\ UNCHANGED runVars
    /\ UNCHANGED ctorVars

NextAgents ==
    \/ AgentChange
    \/ ScanAgent
    \/ ScanEnd
    \/ RoundStart
    \/ RoundAgent

SpecAgents == AgentsInit /\ [][NextAgents]_vars

(***************************************************************************)
(* The properties of the polling loop                                      *)
(***************************************************************************)
\* the names, values and ranges the declared expressions are made of
DeclNames == {<<Word(1)>>, <<Word(0 - 1)>>, <<Word(2)>>, <<Word(1), Word(2)>>}
PlainValues == {Half, One}
Ranges == {<<0, 2>>, <<2, 2>>}
RangeValue(r) == <<Num(r[1]), DASH, Num(r[2])>>

\* the comparison an operator of the test-case description stands for
Holds(op, a, b) ==
    CASE op = OpLE -> a <= b
      [] op = OpGE -> a >= b
      [] op = OpLT -> a < b
      [] op = OpGT -> a > b
      [] op \in {OpEQ, OpEQ2} -> a = b

\* the series of the runtime KPI of stat s that goes by the name of a
\* declared KPI, as the middleware holds it; <<>> if there is none
RuntimeSeries(s, name) ==
    LET js == {j \in 1..Len(Columns(s)) : FoldStr(Columns(s)[j]) = FoldStr(name)}
    IN  IF js = {} \/ mwStats[s] = <<>> THEN <<>>
        ELSE SeriesOf(s, mwStats[s])[CHOOSE j \in js : TRUE]

\* the record of a declared KPI in the tracker, NoneRec if it has no entry
Recorded(s, name) ==
    IF s \in DOMAIN kpiStatTracker /\ name \in DOMAIN kpiStatTracker[s]
    THEN kpiStatTracker[s][name] ELSE NoneRec

PassedIf(b) == IF b THEN "passed" ELSE "failed"

\* operator+value as a reader takes it: '==' may be reported as '=', and a
\* blank may stand between the two
OperatorAndValue(op, v) ==
    {o \o pad \o v : o \in {op} \cup (IF op = OpEQ2 THEN {OpEQ} ELSE {}),
                     pad \in {<<>>, <<SP>>}}

\* C1: after a poll that returned stat s, every KPI declared for s as
\* 'name OP value' (OP one of <=, >=, <, >, ==, =; value a plain number) whose
\* runtime KPI is in the stat is recorded 'passed' exactly when
\* max(series) OP value holds and 'failed' otherwise, with the operator and
\* the value as expectedValue and the maximum as maxValue.
C1_PollRecordsComparison ==
    lastPoll.returned =>
        \A i \in 1..Len(kpiDecl[lastPoll.stat]) :
        \A name \in DeclNames, op \in AllOps, v \in PlainValues, b \in BOOLEAN :
            LET s == lastPoll.stat
                series == RuntimeSeries(s, name)
                rec == Recorded(s, name)
            IN  (kpiDecl[s][i] = Expr(name, op, v, b) /\ series # <<>>) =>
                    /\ rec.result = PassedIf(Holds(op, SeqMax(series), v[1].v))
                    /\ rec.maxValue = SeqMax(series)
                    /\ rec.expectedValue \in OperatorAndValue(op, v)

\* C2: after a poll that returned stat s, a KPI declared for s with the range
\* 'min-max' whose runtime KPI is in the stat is recorded 'passed' exactly when
\* min <= max(series) <= max, whole number or not, and 'failed' otherwise.
C2_RangeInclusive ==
    lastPoll.returned =>
        \A i \in 1..Len(kpiDecl[lastPoll.stat]) :
        \A name \in DeclNames, op \in {OpEQ, OpEQ2}, r \in Ranges :
            LET s == lastPoll.stat
                series == RuntimeSeries(s, name)
                rec == Recorded(s, name)
            IN  (kpiDecl[s][i] = Expr(name, op, RangeValue(r), FALSE)
                 /\ series # <<>>) =>
                    rec.result = PassedIf(r[1] <= SeqMax(series)
                                          /\ SeqMax(series) <= r[2])

(***************************************************************************)
(* MW.startTest                                                            *)
(***************************************************************************)
NotLicense(c) == c # "verifyLicenseSettings"

\* the calls of startTest up to the second POST, the license checks left out
RecoveryCalls ==
    <<"startPost", "checkSessionState", "rebootAgents", "verifyAllAgentsStatusUp",
      "startPost">>

\* the one recovery from ERROR: while startTest polls after a retry, the retry
\* came from an ERROR and made the calls of the recovery in order; an ERROR
\* seen by a loop that goes on polling was the first one; an ERROR of the
\* second operation ends startTest with a raise; no third POST is made
RecoversOnce ==
    /\ opId <= 2
    /\ (pc = "startPoll" /\ retry = 1) =>
          /\ retriedBy = "error"
          /\ opId = 2
          /\ SelectSeq(startCalls, NotLicense) = RecoveryCalls
    /\ (pc = "startPoll" /\ lastState = "ERROR") => (retry = 1 /\ opPolls = 0)
    /\ (lastState = "ERROR" /\ opId = 2 /\ opPolls > 0) =>
          (startEnd = "raised" /\ pc = "except")

C4_TimeoutRetestPolls ==
    (retriedBy = "timeout" /\ opId = 2 /\ startEnd = "raised") => opPolls > 0

\* C5: startTest returns only after a poll reported SUCCESS, with testId set;
\* runTestcase goes on past startTest only after such a return; an end on
\* ERROR, on a missing state or on a timeout is a raise.
C5_ReturnsOnlyOnSuccess ==
    /\ startEnd = "returned" => (lastState = "SUCCESS" /\ testId = "set")
    /\ pc \in {"checkStarted", "poll", "status", "verifyStopped", "pdf", "csv",
               "logs", "verifyKpi", "delete", "finish", "done"}
          => startEnd = "returned"
    /\ (lastState \in {"ERROR", "NOSTATE", "IN_PROGRESS"} /\ pc # "startPoll")
          => (startEnd = "raised" /\ pc \in {"except", "raised"})
    /\ startEnd = "raised" => testId = "None"

\* startTest has just returned
C5_Witness == pc = "checkStarted" /\ startEnd = "returned"

(***************************************************************************)
(* Main.runTestcase                                                        *)
(***************************************************************************)
LoopPcs == {"poll", "status"}
StopStatuses == {"STOPPING", "STOPPED"}

\* the loop reads the status only after it has polled every declared stat; a
\* status that is read ends the loop exactly if it is STOPPING or STOPPED
PollsThenStatus ==
    /\ pc = "status" => polledInPass = DOMAIN kpiDecl
    /\ pc = "verifyStopped" =>
          (passes >= 1 /\ polledInPass = DOMAIN kpiDecl /\ status \in StopStatuses)
    /\ (pc = "poll" /\ passes >= 1) => status \notin StopStatuses
    /\ status # "NONE" => passes >= 1

\* C6: every pass polls every declared stat before the status is read, so a
\* run that leaves the loop has made a pass; the loop is left exactly on a
\* read of STOPPING or STOPPED; once the session is STOPPING or STOPPED the
\* loop comes to an end.
C6_LoopPollsAndEnds ==
    /\ []PollsThenStatus
    /\ (pc \in LoopPcs /\ mwSession \in StopStatuses) ~> (pc \notin LoopPcs)

\* the loop has been left after its second pass
C6_Witness == pc = "verifyStopped" /\ passes = 2

\* the loop of the complete runs' test cases, from where runTestcase enters it
InitLoop == \E kpi \in RunSections : LoopEntry(kpi, AllProperties)

\* the loop runs on: every HTTP call of a pass comes back
SpecLive ==
    InitLoop /\ [][NextKpi]_vars /\ WF_vars(PollStat) /\ WF_vars(ReadStatus)

Requested(call) == \E i \in 1..Len(calls) : calls[i] = call

ArtifactCalls ==
    [getPdfResultsFile |-> "getPDFreport", getCsvResultsFile |-> "getCSVs",
     getCapturesAndLogs |-> "getCapturedLogs"]

\* C7: an artifact is requested only after the loop has ended and
\* verifySessionForStoppedState has returned on status STOPPED, and only if
\* its module property is set; once the artifact step is past, each of the
\* three has been requested exactly if its property is set.
C7_ArtifactsAfterStopped ==
    \A property \in DOMAIN ArtifactCalls :
        /\ Requested(ArtifactCalls[property]) =>
              /\ moduleProperties[property]
              /\ Requested("verifySessionForStoppedState")
              /\ stoppedVerified
              /\ pc \notin {"except", "raised"} => (status = "STOPPED" /\ passes >= 1)
        /\ pc \in {"verifyKpi", "delete", "finish", "done"} =>
              (Requested(ArtifactCalls[property]) <=> moduleProperties[property])

\* the artifact step is past with the PDF report requested and the CSVs not
C7_Witness ==
    pc = "verifyKpi" /\ Requested("getPDFreport") /\ ~Requested("getCSVs")

AfterVerdict == {"delete", "finish", "done"}

TrackedKpis ==
    UNION {{<<s, k>> : k \in DOMAIN kpiStatTracker[s]} : s \in DOMAIN kpiStatTracker}

Count(entries, e) == Cardinality({i \in 1..Len(entries) : entries[i] = e})

\* C8: after the KPI verification the result is 'Failed' exactly if some KPI
\* of the tracker is 'failed'; failures holds one entry for every 'failed'
\* KPI and no other, passed one for every 'passed' KPI and no other.
C8_VerdictCountsFailed ==
    pc \in AfterVerdict =>
        /\ testcaseResult = "Failed" <=>
              \E sk \in TrackedKpis : kpiStatTracker[sk[1]][sk[2]].result = "failed"
        /\ \A sk \in TrackedKpis :
              /\ Count(failures, sk) =
                    IF kpiStatTracker[sk[1]][sk[2]].result = "failed" THEN 1 ELSE 0
              /\ Count(passed, sk) =
                    IF kpiStatTracker[sk[1]][sk[2]].result = "passed" THEN 1 ELSE 0
        /\ \A i \in 1..Len(failures) : failures[i] \in TrackedKpis
        /\ \A i \in 1..Len(passed) : passed[i] \in TrackedKpis

\* the verification has found a failed and a passed KPI
C8_Witness == pc \in AfterVerdict /\ Len(failures) = 1 /\ Len(passed) = 1

\* C9: a declared KPI that no poll has evaluated counts as failed: a run
\* that comes to its verdict with such a KPI is marked 'Failed'.
C9_UnevaluatedCountsFailed ==
    pc \in AfterVerdict =>
        ((\E sk \in TrackedKpis : kpiStatTracker[sk[1]][sk[2]].maxValue < 0)
            => testcaseResult = "Failed")

\* C10: on a run that has not aborted deleteSession has been called exactly if
\* the property deleteSession is set and not (result 'Failed' and
\* deleteSessionOnFailure unset); the session of a failed test case with
\* deleteSessionOnFailure unset stays on the middleware.
C10_DeleteSessionIff ==
    /\ pc \in {"finish", "done"} =>
          (Requested("deleteSession") <=>
              /\ moduleProperties.deleteSession
              /\ ~(testcaseResult = "Failed"
                   /\ ~moduleProperties.deleteSessionOnFailure))
    /\ (testcaseResult = "Failed" /\ ~moduleProperties.deleteSessionOnFailure) =>
          (sessionOnMw /\ ~Requested("deleteSession"))

\* a failed run is over, deleteSession set, and the session is still there
C10_Witness ==
    /\ pc = "done"
    /\ testcaseResult = "Failed"
    /\ moduleProperties.deleteSession
    /\ sessionOnMw

\* C11: an exception of any step reaches the handler and ends the run: the
\* handler reports 'Aborting' and raises the error it caught; what the
\* clean-up raises is passed over and never takes the place of that error;
\* 'Aborting' is the last status reported.
C11_AbortReraisesOriginal ==
    /\ errMsg # "none" => pc \in {"except", "raised"}
    /\ pc = "except" => (errMsg # "none" /\ raisedMsg = "none" /\ errMsg2 = "none")
    /\ pc = "raised" =>
          (moduleStatus = "Aborting" /\ errMsg # "none" /\ raisedMsg = errMsg)
    /\ pc # "raised" => raisedMsg = "none"
    /\ errMsg2 # "none" => (pc = "raised" /\ raisedMsg # errMsg2)

\* a run has aborted and the deletion of the session in its clean-up raised
C11_Witness == pc = "raised" /\ errMsg2 = "deleteSession"

LicenseParams == {"licenseServerIp", "licenseServerType"}

\* C12: once Main(...) has ended: without envParams, or with envParams
\* lacking licenseServerIp or licenseServerType, it has raised and no
\* connection has been made; with all three it has not raised, and
\* kpiStatTracker has an entry for every test case of
\* testcaseSortedOrderList.
C12_ConstructionChecksEnv ==
    ctorEnd # "none" =>
        LET env == mainObj.envParams
            order == mainObj.testcaseSortedOrderList
        IN  IF env.kind \in {"absent", "None"} \/ ~(LicenseParams \subseteq env.keys)
            THEN ctorEnd = "raised" /\ ~connected
            ELSE /\ ctorEnd = "built"
                 /\ \A i \in 1..Len(order) : order[i] \in DOMAIN ctorTracker

\* the calls of runTestcase that are calls of functions of executeFunctions
ExecCalls == SelectSeq(calls, LAMBDA c : c \in {"f1", "f2"})

\* the place of the first call c in the calls of runTestcase, 0 for none
FirstCall(c) ==
    IF \E i \in 1..Len(calls) : calls[i] = c
    THEN CHOOSE i \in 1..Len(calls) :
            calls[i] = c /\ \A j \in 1..(i - 1) : calls[j] # c
    ELSE 0

\* C13: the functions of executeFunctions are called one by one in the
\* listed order, after the session is created and before the start POST;
\* when one of them has failed the start is never issued; and a
\* configParams section that only carries params is accepted and its
\* pollStatInterval is the poll interval of the run.
C13_ReconfigBeforeStart ==
    LET fns == configParams.executeFunctions
        paramsOnly == /\ configParams.present
                      /\ ~configParams.hasFunctions
                      /\ configParams.hasParams
    IN  /\ Len(ExecCalls) <= Len(fns)
        /\ ExecCalls = SubSeq(fns, 1, Len(ExecCalls))
        /\ \A i \in 1..Len(calls) :
              calls[i] \in {"f1", "f2"} =>
                  /\ FirstCall("newSession") \in 1..(i - 1)
                  /\ FirstCall("startTest") \in {0} \cup ((i + 1)..Len(calls))
        /\ "startTest" \in {calls[i] : i \in 1..Len(calls)} => ExecCalls = fns
        /\ (paramsOnly /\ FirstCall("newSession") # 0) =>
              /\ pollStatInterval = <<PollParam.value>>
              /\ ~(errMsg = "setup")

\* C14: when a verifyLicenseSettings of a recovery of startTest finds that
\* the license of the middleware differs from the expected one, startTest
\* does not abort: it resets the license with setLicenseServer and goes on
\* with the retry.
C14_LicenseResetInRecovery ==
    licenseDiffers # 0 =>
        /\ startEnd # "raised"
        /\ \E i \in 1..Len(startCalls) : startCalls[i] = "setLicenseServer"

\* the IPs of the agents of the test environment
EnvAgentIPs == {AgentIP(AgentIds[i]) : i \in 1..Len(AgentIds)} \cap {ip \in {"ip1", "ip2"} : InEnv(ip)}

\* C15: verifyAllAgentsStatusUp returns True only when every agent of the
\* test environment was reported STOPPED by a status read of that same
\* agent; and a round at the timeout in which an agent of the environment is
\* read not STOPPED raises.
C15_TrueOnlyIfAllStopped ==
    /\ agentPc = "returned" => EnvAgentIPs \subseteq seenStopped
    /\ (/\ agentPc \in {"agent", "round"}
        /\ counter = AgentTimeout
        /\ agentIdx > 1
        /\ agentInfo.Status # "STOPPED"
        /\ InEnv(agentInfo.IP)) => FALSE

\* C16: when verifyAllAgentsStatusUp goes into its wait for STOPPED, a
\* reboot has been requested for every agent it collected in
\* agentIdRebootList.
C16_RebootsCollectedAgents ==
    agentPc \in {"round", "agent"} =>
        \A i \in 1..Len(agentIdRebootList) : agentIdRebootList[i] \in rebootRequests

\* C17: verifyAllAgentsStatusUp ends, with True or with an exception, within
\* timeout rounds: it never polls in a round after the round in which
\* counter reached timeout.
C17_EndsWithinTimeout ==
    agentPc \in {"round", "agent"} =>
        /\ counter <= AgentTimeout
        /\ ~(agentPc = "round" /\ counter = AgentTimeout)

\* what a step of the loop does to the tracker
TrackerStep ==
    \A sk \in TrackedKpis :
        LET old == kpiStatTracker[sk[1]][sk[2]]
            new == kpiStatTracker'[sk[1]][sk[2]]
            polled == pc = "poll" /\ statIdx' = statIdx + 1 /\ lastPoll'.returned
        IN  /\ old.maxValue <= new.maxValue
            /\ (old.result = "passed" /\ Head(old.expectedValue) = GT) =>
                   new.result = "passed"
            /\ (old.result = "failed" /\ Head(old.expectedValue) = LT) =>
                   new.result = "failed"
            /\ (polled /\ sk[1] = lastPoll'.stat /\ new.result # "None") =>
                   new.maxValue = SeqMax(SeriesOf(sk[1], mwStats'[sk[1]])[1])
            /\ ~polled => new = old

====
